---- MODULE Spec2Model ----
(***************************************************************************)
(* Proxmox Suite: the HTTP client wrapper (api.py) and the polling         *)
(* aggregator (coordinator.py) as a state machine.  One poll tick is a     *)
(* sequence of awaited GET requests; every action is the code that runs    *)
(* from the resumption of one await up to the next await (or up to the     *)
(* tick's return / raise).  The value functions of the sensor entities     *)
(* (sensor.py) are operators; SpecSensor applies them to the values a      *)
(* snapshot can hold.                                                      *)
(***************************************************************************)
EXTENDS Integers, Sequences, FiniteSets, TLC

(***************************************************************************)
(* Bounds of the model.                                                    *)
(***************************************************************************)
\* longest list /nodes answers with
MaxNodes == 2

(***************************************************************************)
(* const.py                                                                *)
(***************************************************************************)
BACKEND_PVE == "pve"
BACKEND_PBS == "pbs"

(***************************************************************************)
(* JSON values.  Every value is a record of one shape: a type tag, the     *)
(* items when it is a list, the string-valued keys when it is a mapping.   *)
(* A list item is a mapping or not; of a mapping the model keeps the two   *)
(* keys the aggregator reads ("status", "node"), "" standing for a key     *)
(* that is missing.                                                        *)
(***************************************************************************)
NoKeys == [k \in {} |-> ""]

JNull == [t |-> "null", items |-> <<>>, f |-> NoKeys, sub |-> NoKeys, hassub |-> FALSE]

\* a mapping whose keys hold strings
JDict(keys) == [t |-> "dict", items |-> <<>>, f |-> keys, sub |-> NoKeys, hassub |-> FALSE]

\* a mapping whose key "node" holds a mapping itself
JDictNested(keys, nodekeys) == [t |-> "dict", items |-> <<>>, f |-> keys, sub |-> nodekeys, hassub |-> TRUE]

JList(items) == [t |-> "list", items |-> items, f |-> NoKeys, sub |-> NoKeys, hassub |-> FALSE]

Item(status, nodename) == [isdict |-> TRUE, status |-> status, node |-> nodename]

NotADict == [isdict |-> FALSE, status |-> "", node |-> ""]

\* Python truthiness: None, {} and [] are falsy
Truthy(v) ==
    CASE v.t = "null" -> FALSE
      [] v.t = "dict" -> DOMAIN v.f # {} \/ v.hassub
      [] v.t = "list" -> Len(v.items) > 0
      [] OTHER -> TRUE

\* isinstance(v, list)
IsList(v) == v.t = "list"

\* `v or default`
OrElse(v, default) == IF Truthy(v) THEN v ELSE default

(***************************************************************************)
(* What the network hands to ProxmoxAPI.get for one request: a fault of    *)
(* the transport (an aiohttp.ClientError such as a refused connection or a *)
(* TLS failure, or the expiry of the total timeout, which aiohttp raises   *)
(* as asyncio.TimeoutError), or an HTTP response with a status and a body. *)
(* json says what the body parses to: an object, another JSON value        *)
(* (array, scalar, null) or nothing (not JSON).                            *)
(***************************************************************************)
Envelope(data) == [net |-> "response", status |-> 200, json |-> "object", hasdata |-> TRUE, data |-> data]

EnvelopeNoData == [net |-> "response", status |-> 200, json |-> "object", hasdata |-> FALSE, data |-> JNull]

BodyNotObject(kind) == [net |-> "response", status |-> 200, json |-> kind, hasdata |-> FALSE, data |-> JNull]

HttpError(status) == [net |-> "response", status |-> status, json |-> "object", hasdata |-> FALSE, data |-> JNull]

ClientFault == [net |-> "client_error", status |-> 0, json |-> "none", hasdata |-> FALSE, data |-> JNull]

TimeoutFault == [net |-> "timeout", status |-> 0, json |-> "none", hasdata |-> FALSE, data |-> JNull]

(***************************************************************************)
(* The result of a call: a returned value or a raised exception.           *)
(***************************************************************************)
Return(v) == [kind |-> "return", val |-> v, exc |-> "", msg |-> ""]

Raise(exc, msg) == [kind |-> "raise", val |-> JNull, exc |-> exc, msg |-> msg]

\* the exception classes `except aiohttp.ClientError` catches
IsClientError(net) == net = "client_error"

\* ProxmoxAPI.get
Get(resp) ==
    IF resp.net # "response"
    THEN IF IsClientError(resp.net)
         THEN Raise("ProxmoxApiError", "client error")
         ELSE Raise("TimeoutError", "")
    ELSE IF resp.status >= 400
    THEN Raise("ProxmoxApiError", "HTTP status")
    ELSE IF resp.json = "invalid"
    THEN Raise("JSONDecodeError", "Expecting value")
    ELSE IF resp.json # "object"
    THEN Raise("AttributeError", "object has no attribute 'get'")
    ELSE IF resp.hasdata THEN Return(resp.data) ELSE Return(JNull)

\* _safe_get without its except clause: the error of the call goes on
SafeGet_Reraises(resp, default) == Get(resp)

\* ProxmoxCoordinator._safe_get
SafeGet(resp, default) ==
    LET r == Get(resp)
    IN  IF r.kind = "raise" /\ r.exc = "ProxmoxApiError" THEN Return(default) ELSE r

(***************************************************************************)
(* Strings.  str.strip() on the strings of the model: two of them carry    *)
(* surrounding blanks, one is blank altogether.                            *)
(***************************************************************************)
Strip(s) ==
    CASE s = " pbs1 " -> "pbs1"
      [] s = "   " -> ""
      [] OTHER -> s

(***************************************************************************)
(* The payloads the endpoints answer with.                                 *)
(***************************************************************************)
\* all the lists of at most n items drawn from S
RECURSIVE ListsUpTo(_, _)
ListsUpTo(S, n) ==
    IF n = 0 THEN {<<>>}
    ELSE LET shorter == ListsUpTo(S, n - 1)
         IN  shorter \cup {Append(l, x) : l \in {m \in shorter : Len(m) = n - 1}, x \in S}

VersionInfo == JDict([version |-> "8.1.4", release |-> "8.1"])

NodeStatus == JDict([cpu |-> "0.12", uptime |-> "90061"])

NodeItems == {Item("online", "pve1"), Item("online", "pve2"), Item("online", "")}

TaskItem == Item("running", "pve1")

DatastoreItem == Item("", "")

VersionPayloads == {VersionInfo}

NodesPayloads == {JList(l) : l \in ListsUpTo(NodeItems, MaxNodes)} \cup {JList(<<NotADict>>)}

PveStatusPayloads == {NodeStatus}

GuestPayloads ==
    { JList(<<>>), JList(<<Item("running", "")>>),
      JList(<<Item("running", ""), Item("stopped", "")>>), JList(<<NotADict>>) }

TaskPayloads == {JList(<<>>), JList(<<TaskItem>>)}

PbsStatusPayloads ==
    { JDict(NoKeys), NodeStatus,
      JDict([hostname |-> " pbs1 "]),
      JDict([hostname |-> "   ", node |-> "backup", name |-> "store"]),
      JDictNested([name |-> "   "], [nodename |-> " pbs1 ", name |-> "store"]) }

DatastorePayloads == {JList(<<>>), JList(<<DatastoreItem>>)}

\* the answers that are no {"data": ...} envelope with a payload
Failures ==
    { ClientFault, TimeoutFault, HttpError(403), BodyNotObject("array"), EnvelopeNoData }

Responses(payloads) == {Envelope(d) : d \in payloads} \cup Failures

(***************************************************************************)
(* State.                                                                  *)
(***************************************************************************)
VARIABLES
    backend,        \* ProxmoxCoordinator.backend
    node,           \* ProxmoxCoordinator.node
    display_name,   \* ProxmoxCoordinator.display_name
    data,           \* DataUpdateCoordinator.data: the current snapshot
    previous,       \* the snapshot that was current when the last tick began
    sensor,         \* the value function a sensor entity last ran, its input and result
    pc,             \* the await _async_update_data is suspended at, or "idle"
    loc,            \* the local variables of _async_update_data
    inflight,       \* the requests sent and not answered yet
    requests,       \* the requests of the running (or last) tick, in order
    got,            \* per endpoint, the answer of this tick and what api.get made of it
    outcome         \* how the last tick ended

vars == <<backend, node, display_name, data, previous, pc, loc, inflight, requests, got, outcome, sensor>>

\* the aggregator's part of the state
coordinator == <<backend, node, display_name, data, previous, pc, loc, inflight, requests, got, outcome>>

\* no sensor has computed a value
NoSensor == [fn |-> "none"]

EndpointKeys ==
    {"version", "nodes", "status", "qemu", "lxc", "datastores", "tasks_all", "tasks_running"}

NotAsked == [asked |-> FALSE]

Asked(resp) == [asked |-> TRUE, resp |-> resp, result |-> Get(resp)]

NoSnapshot == [backend |-> "none"]

NoLocals ==
    [ version |-> JNull, status |-> JNull, vms |-> JNull, lxcs |-> JNull,
      vms_total |-> 0, vms_running |-> 0, lxcs_total |-> 0, lxcs_running |-> 0,
      datastores |-> JNull, tasks_all |-> JNull, tasks_running |-> JNull ]

\* the request of a GET: the path with the node filled in, and the query
Request(path, n, params) == [path |-> path, node |-> n, params |-> params]

ConfiguredNodes == {"", "pve1"}

\* ProxmoxCoordinator.__init__
InitNode(b, configured) ==
    IF configured # "" THEN configured
    ELSE IF b = BACKEND_PBS THEN "localhost" ELSE ""

Init ==
    /\ backend \in {BACKEND_PVE, BACKEND_PBS}
    /\ \E configured \in ConfiguredNodes : node = InitNode(backend, configured)
    /\ display_name = ""
    /\ data = NoSnapshot
    /\ previous = NoSnapshot
    /\ pc = "idle"
    /\ loc = NoLocals
    /\ inflight = <<>>
    /\ requests = <<>>
    /\ got = [k \in EndpointKeys |-> NotAsked]
    /\ outcome = [kind |-> "none", msg |-> ""]
    /\ sensor = NoSensor

(***************************************************************************)
(* The pieces of _async_update_data that compute.                          *)
(***************************************************************************)
Named(name) == [kind |-> "return", name |-> name, exc |-> "", msg |-> ""]

NameRaises(exc, msg) == [kind |-> "raise", name |-> "", exc |-> exc, msg |-> msg]

\* (nodes[0].get("node") if nodes else "") or ""
FirstNodeName(nodes) ==
    IF ~Truthy(nodes) THEN Named("")
    ELSE IF ~IsList(nodes) THEN NameRaises("KeyError", "0")
    ELSE IF ~nodes.items[1].isdict
         THEN NameRaises("AttributeError", "object has no attribute 'get'")
         ELSE Named(nodes.items[1].node)

\* every item of the list answers .get
AllDicts(items) == \A i \in 1..Len(items) : items[i].isdict

\* sum(1 for vm in vms if vm.get("status") == "running")
CountRunning(items) == Cardinality({i \in 1..Len(items) : items[i].status = "running"})

\* the first of the keys whose value is a non-blank string, stripped; "" when none
RECURSIVE FirstNonBlank(_, _)
FirstNonBlank(f, keys) ==
    IF keys = <<>> THEN ""
    ELSE IF Head(keys) \in DOMAIN f /\ Strip(f[Head(keys)]) # ""
         THEN Strip(f[Head(keys)])
         ELSE FirstNonBlank(f, Tail(keys))

\* ProxmoxCoordinator._extract_hostname_from_status ("" stands for None)
ExtractHostnameFromStatus(status) ==
    IF status.t # "dict" THEN ""
    ELSE LET top == FirstNonBlank(status.f, <<"hostname", "nodename", "node", "name">>)
         IN  IF top # "" THEN top
             ELSE IF status.hassub
                  THEN FirstNonBlank(status.sub, <<"hostname", "nodename", "name">>)
                  ELSE ""

\* ProxmoxCoordinator.host: the configured host or IP address
Host == "192.168.1.10"

\* the display name falling back to the configured host where no name is found
SetDisplayNameNoIp_FallsBackToHost(b, selfnode, pve_node, pbs_hostname) ==
    IF b = BACKEND_PVE
    THEN Strip(IF pve_node # "" THEN pve_node ELSE IF selfnode # "" THEN selfnode ELSE "PVE")
    ELSE LET hn == Strip(pbs_hostname) IN IF hn # "" THEN hn ELSE Host

\* ProxmoxCoordinator._set_display_name_no_ip: the display name it stores
SetDisplayNameNoIp(b, selfnode, pve_node, pbs_hostname) ==
    IF b = BACKEND_PVE
    THEN Strip(IF pve_node # "" THEN pve_node ELSE IF selfnode # "" THEN selfnode ELSE "PVE")
    ELSE LET hn == Strip(pbs_hostname) IN IF hn # "" THEN hn ELSE "PBS"

\* the test with the last `not` left out
PbsNoData_MissingNot(status, datastores, tasks_all, tasks_running) ==
    ~Truthy(status) /\ ~Truthy(datastores) /\ ~Truthy(tasks_all) /\ Truthy(tasks_running)

\* the test with `or` for `and`: any empty answer fails the tick
PbsNoData_AnyEmpty(status, datastores, tasks_all, tasks_running) ==
    ~Truthy(status) \/ ~Truthy(datastores) \/ ~Truthy(tasks_all) \/ ~Truthy(tasks_running)

\* the PBS test for "no connectivity"
PbsNoData(status, datastores, tasks_all, tasks_running) ==
    ~Truthy(status) /\ ~Truthy(datastores) /\ ~Truthy(tasks_all) /\ ~Truthy(tasks_running)

\* the PVE dictionary with empty fields filled from the snapshot held so far
PveSnapshot_KeepsStale(n, dn, l) ==
    LET held == data.backend = BACKEND_PVE
    IN  [ backend |-> BACKEND_PVE,
          node |-> n,
          display_name |-> dn,
          version |-> IF ~Truthy(l.version) /\ held THEN data.version ELSE l.version,
          status |-> IF ~Truthy(l.status) /\ held THEN data.status
                     ELSE OrElse(l.status, JDict(NoKeys)),
          counts |-> IF l.lxcs_total = 0 /\ held
                     THEN [ vms_total |-> l.vms_total, vms_running |-> l.vms_running,
                            lxcs_total |-> data.counts.lxcs_total,
                            lxcs_running |-> data.counts.lxcs_running ]
                     ELSE [ vms_total |-> l.vms_total, vms_running |-> l.vms_running,
                            lxcs_total |-> l.lxcs_total, lxcs_running |-> l.lxcs_running ],
          tasks_running |-> OrElse(l.tasks_running, JList(<<>>)) ]

\* the dictionary the PVE branch returns
PveSnapshot(n, dn, l) ==
    [ backend |-> BACKEND_PVE,
      node |-> n,
      display_name |-> dn,
      version |-> l.version,
      status |-> OrElse(l.status, JDict(NoKeys)),
      counts |-> [ vms_total |-> l.vms_total, vms_running |-> l.vms_running,
                   lxcs_total |-> l.lxcs_total, lxcs_running |-> l.lxcs_running ],
      tasks_running |-> OrElse(l.tasks_running, JList(<<>>)) ]

\* the dictionary the PBS branch returns
PbsSnapshot(n, dn, l) ==
    [ backend |-> BACKEND_PBS,
      node |-> n,
      display_name |-> dn,
      version |-> l.version,
      status |-> OrElse(l.status, JDict(NoKeys)),
      datastores |-> OrElse(l.datastores, JList(<<>>)),
      tasks |-> OrElse(l.tasks_all, JList(<<>>)),
      tasks_running |-> OrElse(l.tasks_running, JList(<<>>)) ]

\* the handlers without `except Exception`: only UpdateFailed is what it was
Escapes_NoCatchAll(exc, msg) == [kind |-> exc, msg |-> msg]

\* the exception that leaves _async_update_data when exc is raised inside its try
Escapes(exc, msg) ==
    IF exc = "UpdateFailed"
    THEN [kind |-> "UpdateFailed", msg |-> msg]
    ELSE [kind |-> "UpdateFailed", msg |-> msg]

(***************************************************************************)
(* How a step of the tick ends.                                            *)
(***************************************************************************)
\* the next request goes out while the earlier ones are still under way
Send_NotAwaited(req, at) ==
    /\ requests' = Append(requests, req)
    /\ inflight' = Append(inflight, req)
    /\ pc' = at
    /\ UNCHANGED <<data, outcome, sensor>>

\* the next request goes out and the coroutine suspends at its await
Send(req, at) ==
    /\ requests' = Append(requests, req)
    /\ inflight' = <<req>>
    /\ pc' = at
    /\ UNCHANGED <<data, outcome, sensor>>

\* the error swallowed: the tick returns an empty dictionary in place of raising
Raises_ReturnsEmpty(exc, msg) ==
    /\ pc' = "idle"
    /\ inflight' = <<>>
    /\ outcome' = [kind |-> "snapshot", msg |-> msg]
    /\ data' = [backend |-> backend]
    /\ UNCHANGED <<requests, sensor>>

\* an exception is raised inside the try: the tick ends, the scheduler keeps its snapshot
Raises(exc, msg) ==
    /\ pc' = "idle"
    /\ inflight' = <<>>
    /\ outcome' = Escapes(exc, msg)
    /\ UNCHANGED <<data, requests, sensor>>

\* the tick returns a snapshot, which the scheduler makes the current one
Returns(snapshot) ==
    /\ pc' = "idle"
    /\ inflight' = <<>>
    /\ outcome' = [kind |-> "snapshot", msg |-> ""]
    /\ data' = snapshot
    /\ UNCHANGED <<requests, sensor>>

PbsNode == IF node # "" THEN node ELSE "localhost"

(***************************************************************************)
(* The tick.                                                               *)
(***************************************************************************)
\* the scheduler calls _async_update_data, which requests /version
\* the tick opens with two requests for /version
Tick_VersionTwice ==
    /\ pc = "idle"
    /\ loc' = NoLocals
    /\ got' = [k \in EndpointKeys |-> NotAsked]
    /\ requests' = <<Request("/version", "", ""), Request("/version", "", "")>>
    /\ inflight' = <<Request("/version", "", "")>>
    /\ pc' = "version"
    /\ outcome' = [kind |-> "running", msg |-> ""]
    /\ previous' = data
    /\ UNCHANGED <<backend, node, display_name, data, sensor>>

Tick ==
    /\ pc = "idle"
    /\ loc' = NoLocals
    /\ got' = [k \in EndpointKeys |-> NotAsked]
    /\ requests' = <<Request("/version", "", "")>>
    /\ inflight' = <<Request("/version", "", "")>>
    /\ pc' = "version"
    /\ outcome' = [kind |-> "running", msg |-> ""]
    /\ previous' = data
    /\ UNCHANGED <<backend, node, display_name, data, sensor>>

RecvVersion ==
    /\ pc = "version"
    /\ \E resp \in Responses(VersionPayloads) :
         LET r == SafeGet(resp, JNull)
         IN  /\ got' = [got EXCEPT !["version"] = Asked(resp)]
             /\ IF r.kind = "raise"
                THEN Raises(r.exc, r.msg) /\ UNCHANGED loc
                ELSE /\ loc' = [loc EXCEPT !.version = r.val]
                     /\ IF backend = BACKEND_PVE
                        THEN IF node = ""
                             THEN Send(Request("/nodes", "", ""), "nodes")
                             ELSE Send(Request("/nodes/{node}/status", node, ""), "status")
                        ELSE Send(Request("/nodes/{node}/status", PbsNode, ""), "pbs_status")
    /\ UNCHANGED <<backend, node, display_name, previous>>

RecvNodes ==
    /\ pc = "nodes"
    /\ \E resp \in Responses(NodesPayloads) :
         LET r == SafeGet(resp, JList(<<>>))
             n == FirstNodeName(r.val)
         IN  /\ got' = [got EXCEPT !["nodes"] = Asked(resp)]
             /\ IF r.kind = "raise"
                THEN Raises(r.exc, r.msg) /\ UNCHANGED node
                ELSE IF n.kind = "raise"
                THEN Raises(n.exc, n.msg) /\ UNCHANGED node
                ELSE /\ node' = n.name
                     /\ IF n.name = ""
                        THEN Raises("UpdateFailed", "Could not determine PVE node name")
                        ELSE Send(Request("/nodes/{node}/status", n.name, ""), "status")
    /\ UNCHANGED <<backend, display_name, loc, previous>>

RecvStatus ==
    /\ pc = "status"
    /\ \E resp \in Responses(PveStatusPayloads) :
         LET r == SafeGet(resp, JDict(NoKeys))
         IN  /\ got' = [got EXCEPT !["status"] = Asked(resp)]
             /\ IF r.kind = "raise"
                THEN Raises(r.exc, r.msg) /\ UNCHANGED loc
                ELSE /\ loc' = [loc EXCEPT !.status = r.val]
                     /\ Send(Request("/nodes/{node}/qemu", node, ""), "qemu")
    /\ UNCHANGED <<backend, node, display_name, previous>>

RecvQemu ==
    /\ pc = "qemu"
    /\ \E resp \in Responses(GuestPayloads) :
         LET r == SafeGet(resp, JList(<<>>))
         IN  /\ got' = [got EXCEPT !["qemu"] = Asked(resp)]
             /\ IF r.kind = "raise"
                THEN Raises(r.exc, r.msg) /\ UNCHANGED loc
                ELSE IF ~IsList(r.val)
                THEN /\ loc' = [loc EXCEPT !.vms = r.val]
                     /\ Send(Request("/nodes/{node}/lxc", node, ""), "lxc")
                ELSE IF ~AllDicts(r.val.items)
                THEN /\ loc' = [loc EXCEPT !.vms = r.val, !.vms_total = Len(r.val.items)]
                     /\ Raises("AttributeError", "object has no attribute 'get'")
                ELSE /\ loc' = [loc EXCEPT !.vms = r.val,
                                           !.vms_total = Len(r.val.items),
                                           !.vms_running = CountRunning(r.val.items)]
                     /\ Send(Request("/nodes/{node}/lxc", node, ""), "lxc")
    /\ UNCHANGED <<backend, node, display_name, previous>>

RecvLxc ==
    /\ pc = "lxc"
    /\ \E resp \in Responses(GuestPayloads) :
         LET r == SafeGet(resp, JList(<<>>))
         IN  /\ got' = [got EXCEPT !["lxc"] = Asked(resp)]
             /\ IF r.kind = "raise"
                THEN Raises(r.exc, r.msg) /\ UNCHANGED loc
                ELSE IF ~IsList(r.val)
                THEN /\ loc' = [loc EXCEPT !.lxcs = r.val]
                     /\ Send(Request("/nodes/{node}/tasks", node, "running=true&limit=200"),
                             "tasks_running")
                ELSE IF ~AllDicts(r.val.items)
                THEN /\ loc' = [loc EXCEPT !.lxcs = r.val, !.lxcs_total = Len(r.val.items)]
                     /\ Raises("AttributeError", "object has no attribute 'get'")
                ELSE /\ loc' = [loc EXCEPT !.lxcs = r.val,
                                           !.lxcs_total = Len(r.val.items),
                                           !.lxcs_running = CountRunning(r.val.items)]
                     /\ Send(Request("/nodes/{node}/tasks", node, "running=true&limit=200"),
                             "tasks_running")
    /\ UNCHANGED <<backend, node, display_name, previous>>

RecvTasksRunning ==
    /\ pc = "tasks_running"
    /\ \E resp \in Responses(TaskPayloads) :
         LET r == SafeGet(resp, JList(<<>>))
             l == [loc EXCEPT !.tasks_running = r.val]
             dn == SetDisplayNameNoIp(backend, node, node, "")
         IN  /\ got' = [got EXCEPT !["tasks_running"] = Asked(resp)]
             /\ IF r.kind = "raise"
                THEN Raises(r.exc, r.msg) /\ UNCHANGED <<loc, display_name>>
                ELSE /\ loc' = l
                     /\ display_name' = dn
                     /\ Returns(PveSnapshot(node, dn, l))
    /\ UNCHANGED <<backend, node, previous>>

RecvPbsStatus ==
    /\ pc = "pbs_status"
    /\ \E resp \in Responses(PbsStatusPayloads) :
         LET r == SafeGet(resp, JDict(NoKeys))
         IN  /\ got' = [got EXCEPT !["status"] = Asked(resp)]
             /\ IF r.kind = "raise"
                THEN Raises(r.exc, r.msg) /\ UNCHANGED loc
                ELSE /\ loc' = [loc EXCEPT !.status = r.val]
                     /\ Send(Request("/status/datastore-usage", "", ""), "datastores")
    /\ UNCHANGED <<backend, node, display_name, previous>>

RecvDatastores ==
    /\ pc = "datastores"
    /\ \E resp \in Responses(DatastorePayloads) :
         LET r == SafeGet(resp, JList(<<>>))
         IN  /\ got' = [got EXCEPT !["datastores"] = Asked(resp)]
             /\ IF r.kind = "raise"
                THEN Raises(r.exc, r.msg) /\ UNCHANGED loc
                ELSE /\ loc' = [loc EXCEPT !.datastores = r.val]
                     /\ Send(Request("/nodes/{node}/tasks", PbsNode, "limit=200"), "tasks_all")
    /\ UNCHANGED <<backend, node, display_name, previous>>

RecvTasksAll ==
    /\ pc = "tasks_all"
    /\ \E resp \in Responses(TaskPayloads) :
         LET r == SafeGet(resp, JList(<<>>))
         IN  /\ got' = [got EXCEPT !["tasks_all"] = Asked(resp)]
             /\ IF r.kind = "raise"
                THEN Raises(r.exc, r.msg) /\ UNCHANGED loc
                ELSE /\ loc' = [loc EXCEPT !.tasks_all = r.val]
                     /\ Send(Request("/nodes/{node}/tasks", PbsNode, "running=true&limit=200"),
                             "pbs_tasks_running")
    /\ UNCHANGED <<backend, node, display_name, previous>>

RecvPbsTasksRunning ==
    /\ pc = "pbs_tasks_running"
    /\ \E resp \in Responses(TaskPayloads) :
         LET r == SafeGet(resp, JList(<<>>))
             l == [loc EXCEPT !.tasks_running = r.val]
             dn == SetDisplayNameNoIp(backend, node, "", ExtractHostnameFromStatus(l.status))
         IN  /\ got' = [got EXCEPT !["tasks_running"] = Asked(resp)]
             /\ IF r.kind = "raise"
                THEN Raises(r.exc, r.msg) /\ UNCHANGED <<loc, display_name>>
                ELSE /\ loc' = l
                     /\ IF PbsNoData(l.status, l.datastores, l.tasks_all, l.tasks_running)
                        THEN /\ Raises("UpdateFailed", "PBS: all API calls failed (no data returned)")
                             /\ UNCHANGED display_name
                        ELSE /\ display_name' = dn
                             /\ Returns(PbsSnapshot(PbsNode, dn, l))
    /\ UNCHANGED <<backend, node, previous>>

Next ==
    \/ Tick
    \/ RecvVersion
    \/ RecvNodes
    \/ RecvStatus
    \/ RecvQemu
    \/ RecvLxc
    \/ RecvTasksRunning
    \/ RecvPbsStatus
    \/ RecvDatastores
    \/ RecvTasksAll
    \/ RecvPbsTasksRunning

Spec == Init /\ [][Next]_vars

(***************************************************************************)
(* Vocabulary of the properties: what this tick's answers were.            *)
(***************************************************************************)
\* the last tick has ended (and there was one)
TickEnded == pc = "idle" /\ outcome.kind \in {"snapshot", "UpdateFailed"}

\* api.get returned for endpoint k in this tick
Returned(k) == got[k].asked /\ got[k].result.kind = "return"

\* api.get raised ProxmoxApiError (the RemoteError) for endpoint k in this tick
RemoteError(k) ==
    got[k].asked /\ got[k].result.kind = "raise" /\ got[k].result.exc = "ProxmoxApiError"

\* api.get raised something else for endpoint k in this tick
OtherError(k) ==
    got[k].asked /\ got[k].result.kind = "raise" /\ got[k].result.exc # "ProxmoxApiError"

\* the request for k met a fault of the transport: connection, TLS, timeout
TransportFault(k) == got[k].asked /\ got[k].resp.net \in {"client_error", "timeout"}

\* the request for k was answered with an HTTP status >= 400
HttpFailure(k) == got[k].asked /\ got[k].resp.net = "response" /\ got[k].resp.status >= 400

\* the request for k was answered with a status < 400
HttpSuccess(k) == got[k].asked /\ got[k].resp.net = "response" /\ got[k].resp.status < 400

\* the request for k was answered with a {"data": payload} envelope, the payload
\* being what the Proxmox API documents for the endpoint
Succeeded(k) ==
    /\ HttpSuccess(k)
    /\ got[k].resp.json = "object"
    /\ got[k].resp.hasdata
    /\ AllDicts(got[k].resp.data.items)

\* the payload k answered with in this tick
Payload(k) == got[k].resp.data

\* k yielded a non-empty value in this tick
NonEmpty(k) == Returned(k) /\ Truthy(got[k].result.val)

PveKeys == {"version", "status", "qemu", "lxc", "tasks_running"}

PbsDataKeys == {"status", "datastores", "tasks_all", "tasks_running"}

PbsKeys == PbsDataKeys \cup {"version"}

(***************************************************************************)
(* C1.  PVE tick, node name known: when the request for the container list *)
(* meets a transport fault and every other endpoint answers with its       *)
(* payload, the tick publishes a snapshot whose container counts are 0 and *)
(* whose other fields are this tick's payloads.                            *)
(***************************************************************************)
C1_Case(lxcFailed) ==
    /\ backend = BACKEND_PVE
    /\ TickEnded
    /\ ~got["nodes"].asked
    /\ lxcFailed
    /\ \A k \in PveKeys \ {"lxc"} : got[k].asked => Succeeded(k)

C1_Published ==
    /\ outcome.kind = "snapshot"
    /\ data.counts.lxcs_total = 0
    /\ data.counts.lxcs_running = 0
    /\ data.version = Payload("version")
    /\ data.status = Payload("status")
    /\ data.counts.vms_total = Len(Payload("qemu").items)
    /\ data.counts.vms_running = CountRunning(Payload("qemu").items)
    /\ data.tasks_running = Payload("tasks_running")

\* C1: a transport fault of /nodes/{node}/lxc alone leaves the tick successful,
\* the container counts 0 and every other field this tick's payload
C1_LxcTransportFaultTolerated == C1_Case(TransportFault("lxc")) => C1_Published

\* C1, for the faults api.get reports as ProxmoxApiError: the same holds
C1_LxcRemoteErrorTolerated == C1_Case(RemoteError("lxc")) => C1_Published

C1_RemoteErrorWitness ==
    /\ C1_Case(RemoteError("lxc") /\ TransportFault("lxc"))
    /\ data.counts.vms_total = 2
    /\ data.counts.vms_running = 1

(***************************************************************************)
(* C2.  PBS tick: when none of node status, datastore usage, task list and *)
(* running-task list yields a non-empty value (the call failed, or it      *)
(* returned an empty value), the tick raises UpdateFailed and publishes    *)
(* nothing, whatever /version did.                                         *)
(***************************************************************************)
\* C2: a PBS tick in which status, datastores, tasks and running tasks are all
\* empty or absent ends in UpdateFailed and leaves the current snapshot alone
C2_PbsAllEmptyFails ==
    (backend = BACKEND_PBS /\ TickEnded /\ \A k \in PbsDataKeys : ~NonEmpty(k))
        => outcome.kind = "UpdateFailed" /\ data = previous

C2_Witness ==
    /\ backend = BACKEND_PBS
    /\ TickEnded
    /\ Succeeded("version")
    /\ \A k \in PbsDataKeys : got[k].asked /\ ~NonEmpty(k)
    /\ \E k \in PbsDataKeys : RemoteError(k)
    /\ \E k \in PbsDataKeys : Returned(k)
    /\ outcome = [kind |-> "UpdateFailed", msg |-> "PBS: all API calls failed (no data returned)"]

(***************************************************************************)
(* C3.  PBS tick: when one of the four yields a non-empty value, the tick  *)
(* publishes a snapshot although the other endpoints, /version included,   *)
(* fail with ProxmoxApiError; a failed endpoint's field is its default.    *)
(***************************************************************************)
C3_Case ==
    /\ backend = BACKEND_PBS
    /\ TickEnded
    /\ \A k \in PbsKeys : got[k].asked => Returned(k) \/ RemoteError(k)
    /\ \E k \in PbsDataKeys : NonEmpty(k)

\* C3: a PBS tick with one non-empty answer among status, datastores, tasks and
\* running tasks succeeds whatever fails with RemoteError, defaults in the failed fields
C3_PbsPartialSucceeds ==
    C3_Case =>
        /\ outcome.kind = "snapshot"
        /\ data.backend = BACKEND_PBS
        /\ RemoteError("version") => data.version = JNull
        /\ RemoteError("status") => data.status = JDict(NoKeys)
        /\ RemoteError("datastores") => data.datastores = JList(<<>>)
        /\ RemoteError("tasks_all") => data.tasks = JList(<<>>)
        /\ RemoteError("tasks_running") => data.tasks_running = JList(<<>>)

C3_Witness ==
    /\ C3_Case
    /\ outcome.kind = "snapshot"
    /\ \E k \in PbsDataKeys : NonEmpty(k) /\ \A j \in PbsKeys \ {k} : RemoteError(j)

(***************************************************************************)
(* C4.  /version is best effort: whichever way its request fails (HTTP     *)
(* status >= 400, connection fault, timeout), the tick goes on to its next *)
(* request, and a snapshot it publishes has no version.                    *)
(***************************************************************************)
C4_Continues ==
    /\ Len(requests) >= 2
    /\ (TickEnded /\ outcome.kind = "snapshot") => data.version = JNull

\* C4: no failure of the /version request aborts the tick; the snapshot's version is absent
C4_VersionBestEffort ==
    (HttpFailure("version") \/ TransportFault("version")) => C4_Continues

\* C4, for the failures api.get reports as ProxmoxApiError: the same holds
C4_VersionRemoteErrorTolerated == RemoteError("version") => C4_Continues

(***************************************************************************)
(* C5.  api.get raises ProxmoxApiError for an HTTP status >= 400 and for   *)
(* every transport fault (connection, TLS, timeout), and nothing else.     *)
(***************************************************************************)
\* C5: every request answered >= 400 or hit by a transport fault makes api.get
\* raise ProxmoxApiError
C5_FaultsRaiseRemoteError ==
    \A k \in EndpointKeys : (HttpFailure(k) \/ TransportFault(k)) => RemoteError(k)

\* C5, for the faults that are aiohttp.ClientError, and for HTTP >= 400: the same holds
C5_ClientErrorsRaiseRemoteError ==
    \A k \in EndpointKeys :
        (HttpFailure(k) \/ (got[k].asked /\ got[k].resp.net = "client_error")) => RemoteError(k)

(***************************************************************************)
(* C6.  For a status < 400 api.get returns the value under "data", and an  *)
(* absent result when the body has no "data" key or is no object at all;   *)
(* it does not fail.                                                       *)
(***************************************************************************)
\* C6: every request answered < 400 makes api.get return: the data of the envelope,
\* None when there is no data key or no envelope
C6_SuccessReturnsData ==
    \A k \in EndpointKeys :
        HttpSuccess(k) =>
            /\ got[k].result.kind = "return"
            /\ got[k].result.val =
                   IF got[k].resp.json = "object" /\ got[k].resp.hasdata
                   THEN got[k].resp.data
                   ELSE JNull

\* C6, for bodies that are JSON objects: the same holds
C6_ObjectBodyReturnsData ==
    \A k \in EndpointKeys :
        (HttpSuccess(k) /\ got[k].resp.json = "object") =>
            /\ got[k].result.kind = "return"
            /\ got[k].result.val = IF got[k].resp.hasdata THEN got[k].resp.data ELSE JNull

(***************************************************************************)
(* C7.  A tick ends with a snapshot returned or with UpdateFailed raised;  *)
(* an exception raised inside the tick that is no UpdateFailed leaves it   *)
(* as UpdateFailed with the same message.                                  *)
(***************************************************************************)
\* a list answered for k holds an item that is no mapping (and the code reads it)
MalformedItems(k) ==
    /\ Returned(k)
    /\ IsList(got[k].result.val)
    /\ IF k = "nodes"
       THEN Len(got[k].result.val.items) > 0 /\ ~got[k].result.val.items[1].isdict
       ELSE ~AllDicts(got[k].result.val.items)

\* C7: a tick that has ended has returned a snapshot or raised UpdateFailed, never
\* anything else; errors other than UpdateFailed end it as UpdateFailed(str(e))
C7_TickOutcomes ==
    /\ pc = "idle" => outcome.kind \in {"none", "snapshot", "UpdateFailed"}
    /\ pc # "idle" => outcome.kind = "running"
    /\ \A k \in EndpointKeys :
           OtherError(k) =>
               /\ pc = "idle"
               /\ outcome = [kind |-> "UpdateFailed", msg |-> got[k].result.msg]
    /\ \A k \in {"nodes", "qemu", "lxc"} :
           MalformedItems(k) =>
               /\ pc = "idle"
               /\ outcome = [kind |-> "UpdateFailed", msg |-> "object has no attribute 'get'"]

C7_Witness ==
    /\ TickEnded
    /\ data # NoSnapshot
    /\ \E k \in EndpointKeys :
           /\ OtherError(k)
           /\ got[k].result.exc = "AttributeError"
           /\ outcome = [kind |-> "UpdateFailed", msg |-> "object has no attribute 'get'"]

(***************************************************************************)
(* C8.  A tick that fails (PVE node name unresolved, PBS without data, an  *)
(* unclassified exception) leaves the current snapshot as it was: the      *)
(* current snapshot changes only when a tick returns one.                  *)
(***************************************************************************)
NodeUnresolved == backend = BACKEND_PVE /\ node = ""

PbsAllEmpty == backend = BACKEND_PBS /\ \A k \in PbsDataKeys : ~NonEmpty(k)

Unclassified ==
    \/ \E k \in EndpointKeys : OtherError(k)
    \/ \E k \in {"nodes", "qemu", "lxc"} : MalformedItems(k)

\* C8: after a tick that failed for one of the three causes the current snapshot is the
\* one held before the tick; it differs from that one only after a successful tick
C8_FailedTickKeepsSnapshot ==
    /\ (TickEnded /\ (NodeUnresolved \/ PbsAllEmpty \/ Unclassified))
           => outcome.kind = "UpdateFailed" /\ data = previous
    /\ outcome.kind # "snapshot" => data = previous

C8_Witness ==
    /\ TickEnded
    /\ PbsAllEmpty
    /\ \A k \in PbsKeys : got[k].asked
    /\ outcome.kind = "UpdateFailed"
    /\ data # NoSnapshot
    /\ Truthy(data.datastores)

(***************************************************************************)
(* C9.  The snapshot of a successful tick is made of this tick's answers   *)
(* alone: a field whose endpoint failed holds its default whatever the     *)
(* previous snapshot held.                                                 *)
(***************************************************************************)
\* what this tick's answer for k amounts to
ValueOr(k, default) == IF Returned(k) THEN got[k].result.val ELSE default

NonEmptyOr(k, default) == IF NonEmpty(k) THEN got[k].result.val ELSE default

ItemsOf(k) == IF Returned(k) /\ IsList(got[k].result.val) THEN got[k].result.val.items ELSE <<>>

FromThisTick ==
    IF backend = BACKEND_PVE
    THEN [ backend |-> BACKEND_PVE,
           node |-> node,
           display_name |-> node,
           version |-> ValueOr("version", JNull),
           status |-> NonEmptyOr("status", JDict(NoKeys)),
           counts |-> [ vms_total |-> Len(ItemsOf("qemu")),
                        vms_running |-> CountRunning(ItemsOf("qemu")),
                        lxcs_total |-> Len(ItemsOf("lxc")),
                        lxcs_running |-> CountRunning(ItemsOf("lxc")) ],
           tasks_running |-> NonEmptyOr("tasks_running", JList(<<>>)) ]
    ELSE [ backend |-> BACKEND_PBS,
           node |-> node,
           display_name |-> data.display_name,
           version |-> ValueOr("version", JNull),
           status |-> NonEmptyOr("status", JDict(NoKeys)),
           datastores |-> NonEmptyOr("datastores", JList(<<>>)),
           tasks |-> NonEmptyOr("tasks_all", JList(<<>>)),
           tasks_running |-> NonEmptyOr("tasks_running", JList(<<>>)) ]

\* C9: the snapshot a successful tick publishes is a function of this tick's answers,
\* with the default in every field whose endpoint failed
C9_SnapshotFromThisTick ==
    (TickEnded /\ outcome.kind = "snapshot") =>
        /\ data = FromThisTick
        /\ data.display_name \in {node, "PBS", Strip(ExtractHostnameFromStatus(ValueOr("status", JNull)))}

C9_Witness ==
    /\ TickEnded
    /\ outcome.kind = "snapshot"
    /\ backend = BACKEND_PVE
    /\ previous # NoSnapshot
    /\ previous.counts.lxcs_total > 0
    /\ previous.version # JNull
    /\ Truthy(previous.status)
    /\ RemoteError("lxc") /\ RemoteError("version") /\ RemoteError("status")
    /\ data.counts.lxcs_total = 0
    /\ data.version = JNull
    /\ data.status = JDict(NoKeys)

(***************************************************************************)
(* C10.  PVE tick, node name unknown: /nodes is requested and the node     *)
(* field of its first entry adopted; when /nodes fails, is empty, or its   *)
(* first entry has no node, the tick raises UpdateFailed('Could not        *)
(* determine PVE node name') before any request for the node goes out.     *)
(***************************************************************************)
FirstNode ==
    IF Succeeded("nodes") /\ IsList(Payload("nodes")) /\ Len(Payload("nodes").items) > 0
    THEN Payload("nodes").items[1].node
    ELSE ""

C10_FailsBeforeNodeRequests ==
    /\ TickEnded
    /\ outcome = [kind |-> "UpdateFailed", msg |-> "Could not determine PVE node name"]
    /\ requests = <<Request("/version", "", ""), Request("/nodes", "", "")>>

\* C10: with no node name known the tick asks /nodes and adopts the first entry's node;
\* if /nodes fails or names no node, UpdateFailed('Could not determine PVE node name')
\* is raised and nothing of /nodes/{node}/... has been requested
C10_NodeResolution ==
    /\ (backend = BACKEND_PVE /\ pc # "idle" /\ node = "") => pc \in {"version", "nodes"}
    /\ (Succeeded("nodes") /\ FirstNode # "") => node = FirstNode
    /\ (\/ HttpFailure("nodes")
        \/ TransportFault("nodes")
        \/ (Succeeded("nodes") /\ FirstNode = "")) => C10_FailsBeforeNodeRequests

\* C10, for the failures api.get reports as ProxmoxApiError: the same holds; for any
\* other failure the tick still ends in UpdateFailed with no request for the node sent
C10_NodeResolutionRemoteError ==
    /\ (backend = BACKEND_PVE /\ pc # "idle" /\ node = "") => pc \in {"version", "nodes"}
    /\ (Succeeded("nodes") /\ FirstNode # "") => node = FirstNode
    /\ (RemoteError("nodes") \/ (Succeeded("nodes") /\ FirstNode = ""))
           => C10_FailsBeforeNodeRequests
    /\ (got["nodes"].asked /\ pc # "nodes" /\ ~(Succeeded("nodes") /\ FirstNode # ""))
           => TickEnded /\ outcome.kind = "UpdateFailed" /\ Len(requests) = 2

C10_RemoteErrorWitness ==
    /\ RemoteError("nodes")
    /\ C10_FailsBeforeNodeRequests

(***************************************************************************)
(* C11.  The display name of a published snapshot never is the configured  *)
(* host: for PVE it is the node name, for PBS the first non-blank string   *)
(* under hostname, nodename, node, name of this tick's status, else under  *)
(* hostname, nodename, name of its nested node object, else "PBS".         *)
(***************************************************************************)
\* key k of mapping f holds a string that is not blank
NonBlank(f, k) == k \in DOMAIN f /\ Strip(f[k]) # ""

\* the name the status payload of this tick gives
NameInStatus ==
    LET st == ValueOr("status", JDict(NoKeys))
    IN  IF st.t # "dict" THEN "PBS"
        ELSE IF NonBlank(st.f, "hostname") THEN Strip(st.f["hostname"])
        ELSE IF NonBlank(st.f, "nodename") THEN Strip(st.f["nodename"])
        ELSE IF NonBlank(st.f, "node") THEN Strip(st.f["node"])
        ELSE IF NonBlank(st.f, "name") THEN Strip(st.f["name"])
        ELSE IF st.hassub /\ NonBlank(st.sub, "hostname") THEN Strip(st.sub["hostname"])
        ELSE IF st.hassub /\ NonBlank(st.sub, "nodename") THEN Strip(st.sub["nodename"])
        ELSE IF st.hassub /\ NonBlank(st.sub, "name") THEN Strip(st.sub["name"])
        ELSE "PBS"

\* C11: a published snapshot's display_name is the node name (PVE) or the name found in
\* this tick's status in the stated order, "PBS" when none is found; never the host
C11_DisplayNameNoIp ==
    (TickEnded /\ outcome.kind = "snapshot") =>
        /\ data.display_name # Host
        /\ data.display_name = display_name
        /\ backend = BACKEND_PVE => data.display_name = node /\ node # ""
        /\ backend = BACKEND_PBS => data.display_name = NameInStatus

C11_Witness ==
    /\ TickEnded
    /\ outcome.kind = "snapshot"
    /\ backend = BACKEND_PBS
    /\ Returned("status")
    /\ got["status"].result.val.hassub
    /\ data.display_name = "pbs1"
    /\ previous # NoSnapshot
    /\ previous.display_name = "PBS"

(***************************************************************************)
(* sensor.py: the value functions of the sensor entities.                  *)
(* Python values.  Every value is a record of one shape: a type tag, the   *)
(* number as a fraction num/den, the string, the items of a list, the keys *)
(* of a dict.  dict.get answers None for a missing key, so a key holding   *)
(* None is written as a missing key.                                       *)
(***************************************************************************)
PyNone == [t |-> "none", num |-> 0, den |-> 1, s |-> "", items |-> <<>>, f |-> NoKeys]

PyNum(num, den) == [t |-> "num", num |-> num, den |-> den, s |-> "", items |-> <<>>, f |-> NoKeys]

PyInt(n) == PyNum(n, 1)

PyStr(s) == [t |-> "str", num |-> 0, den |-> 1, s |-> s, items |-> <<>>, f |-> NoKeys]

PyList(items) == [t |-> "list", num |-> 0, den |-> 1, s |-> "", items |-> items, f |-> NoKeys]

PyDict(f) == [t |-> "dict", num |-> 0, den |-> 1, s |-> "", items |-> <<>>, f |-> f]

\* bool(v)
IsTrue(v) ==
    CASE v.t = "none" -> FALSE
      [] v.t = "num" -> v.num # 0
      [] v.t = "str" -> v.s # ""
      [] v.t = "list" -> Len(v.items) > 0
      [] v.t = "dict" -> DOMAIN v.f # {}

\* `a or b`
PyOr(a, b) == IF IsTrue(a) THEN a ELSE b

\* d.get(k)
DictGet(d, k) == IF k \in DOMAIN d.f THEN d.f[k] ELSE PyNone

\* str.lower() on the strings of the model
Lower(s) ==
    CASE s = "Active" -> "active"
      [] s = "OK" -> "ok"
      [] OTHER -> s

\* v.lower(): only a str has the method
StrLower(v) ==
    IF v.t = "str"
    THEN Return(PyStr(Lower(v.s)))
    ELSE Raise("AttributeError", "object has no attribute 'lower'")

\* the strings of the model float() parses
NumericStrings == {"0.52", "90061", "1699996400"}

ParseFloat(s) ==
    CASE s = "0.52" -> PyNum(52, 100)
      [] s = "90061" -> PyInt(90061)
      [] s = "1699996400" -> PyInt(1699996400)

\* float(v)
Float(v) ==
    CASE v.t = "num" -> Return(v)
      [] v.t = "str" -> IF v.s \in NumericStrings
                        THEN Return(ParseFloat(v.s))
                        ELSE Raise("ValueError", "could not convert string to float")
      [] OTHER -> Raise("TypeError", "float() argument must be a string or a real number")

\* int(x): truncation toward zero
Trunc(x) == IF x.num >= 0 THEN x.num \div x.den ELSE -((-x.num) \div x.den)

Pow10(ndigits) == IF ndigits = 0 THEN 1 ELSE IF ndigits = 1 THEN 10 ELSE 100

\* round(x, ndigits): to the nearest multiple of 10^-ndigits, a tie to the even one
Round(x, ndigits) ==
    LET scale == Pow10(ndigits)
        n == x.num * scale
        q == n \div x.den
        r == n % x.den
        nearest == IF 2 * r < x.den THEN q
                   ELSE IF 2 * r > x.den THEN q + 1
                   ELSE IF q % 2 = 0 THEN q ELSE q + 1
    IN  PyNum(nearest, scale)

_GIB == 1024 * 1024 * 1024

\* _bytes_to_gib
BytesToGib(v, precision) ==
    IF v = PyNone THEN Return(PyNone)
    ELSE LET b == Float(v)
         IN  IF b.kind = "raise" THEN Return(PyNone)
             ELSE Return(Round(PyNum(b.val.num, b.val.den * _GIB), precision))

\* _cpu_to_percent
CpuToPercent(v) ==
    IF v = PyNone THEN Return(PyNone)
    ELSE LET f == Float(v)
         IN  IF f.kind = "raise" THEN Return(PyNone)
             ELSE IF f.val.num <= f.val.den
             THEN Return(Round(PyNum(f.val.num * 100, f.val.den), 1))
             ELSE Return(Round(f.val, 1))

\* _percent
Percent(used, total) ==
    LET u == Float(used)
        t == Float(total)
    IN  IF u.kind = "raise" \/ t.kind = "raise" THEN Return(PyNone)
        ELSE IF t.val.num <= 0 THEN Return(PyNone)
        ELSE Return(Round(PyNum(u.val.num * t.val.den * 100, u.val.den * t.val.num), 2))

\* round(float(v), 2) inside the try of _load_1m
Load1mOf(v) ==
    LET x == Float(v)
    IN  IF x.kind = "raise" THEN Return(PyNone) ELSE Return(Round(x.val, 2))

\* _load_1m: the keys of a dict that came from JSON are strings
Load1m(loadavg) ==
    IF loadavg.t = "list" /\ Len(loadavg.items) > 0 THEN Load1mOf(loadavg.items[1])
    ELSE IF loadavg.t = "dict"
    THEN LET v == DictGet(loadavg, "0")
         IN  IF v # PyNone THEN Load1mOf(v) ELSE Return(PyNone)
    ELSE Return(PyNone)

\* _tasks_list
TasksList(tasks) ==
    IF tasks.t # "list" THEN <<>>
    ELSE SelectSeq(tasks.items, LAMBDA t : t.t = "dict")

\* (t.get("status") or t.get("state") or "").lower()
TaskStatus(t) == StrLower(PyOr(PyOr(DictGet(t, "status"), DictGet(t, "state")), PyStr("")))

\* the task counts as running whatever its endtime is
TaskIsRunning_StatusOnly(t) ==
    LET st == TaskStatus(t)
    IN  IF st.kind = "raise" THEN st ELSE Return(st.val.s \in {"running", "active"})

\* _task_is_running
TaskIsRunning(t) ==
    LET st == TaskStatus(t)
        endtime == DictGet(t, "endtime")
    IN  IF st.kind = "raise" THEN st
        ELSE IF st.val.s \in {"running", "active"} THEN Return(TRUE)
        ELSE IF endtime = PyNone \/ endtime = PyStr("") THEN Return(TRUE)
        ELSE Return(Float(endtime).kind = "raise")

\* _task_is_success
TaskIsSuccess(t) ==
    LET st == TaskStatus(t)
    IN  IF st.kind = "raise" THEN st ELSE Return(st.val.s \in {"ok", "success"})

\* _task_endtime
TaskEndtime(t) ==
    LET endtime == DictGet(t, "endtime")
    IN  IF endtime = PyNone THEN PyNone
        ELSE IF Float(endtime).kind = "raise" THEN PyNone
        ELSE Float(endtime).val

\* the loop body of _count_failed_tasks_last_24h without the 24-hour window
TaskFailed_NoWindow(t, cutoff) ==
    LET running == TaskIsRunning(t)
        success == TaskIsSuccess(t)
        exitstatus == StrLower(PyOr(DictGet(t, "exitstatus"), PyStr("")))
    IN  IF TaskEndtime(t) = PyNone THEN Return(FALSE)
        ELSE IF running.kind = "raise" THEN running
        ELSE IF running.val THEN Return(FALSE)
        ELSE IF success.kind = "raise" THEN success
        ELSE IF success.val THEN Return(FALSE)
        ELSE IF exitstatus.kind = "raise" THEN exitstatus
        ELSE Return(exitstatus.val.s \notin {"ok", "success"})

\* the loop body of _count_failed_tasks_last_24h: does the task add to `failed`
TaskFailed(t, cutoff) ==
    LET end == TaskEndtime(t)
        running == TaskIsRunning(t)
        success == TaskIsSuccess(t)
        exitstatus == StrLower(PyOr(DictGet(t, "exitstatus"), PyStr("")))
    IN  IF end = PyNone \/ end.num < cutoff * end.den THEN Return(FALSE)
        ELSE IF running.kind = "raise" THEN running
        ELSE IF running.val THEN Return(FALSE)
        ELSE IF success.kind = "raise" THEN success
        ELSE IF success.val THEN Return(FALSE)
        ELSE IF exitstatus.kind = "raise" THEN exitstatus
        ELSE Return(exitstatus.val.s \notin {"ok", "success"})

\* the loop: the count of the tasks from the i-th on, or the first exception
RECURSIVE FailedFrom(_, _, _)
FailedFrom(lst, i, cutoff) ==
    IF i > Len(lst) THEN Return(0)
    ELSE LET this == TaskFailed(lst[i], cutoff)
         IN  IF this.kind = "raise" THEN this
             ELSE LET rest == FailedFrom(lst, i + 1, cutoff)
                  IN  IF rest.kind = "raise" THEN rest
                      ELSE Return(rest.val + (IF this.val THEN 1 ELSE 0))

Day == 24 * 3600

\* _count_failed_tasks_last_24h, `now` being what datetime.now answers
CountFailedTasksLast24h(tasks, now) ==
    LET lst == TasksList(tasks)
        failed == FailedFrom(lst, 1, now - Day)
    IN  IF lst = <<>> THEN Return(PyInt(0))
        ELSE IF failed.kind = "raise" THEN failed
        ELSE Return(PyInt(failed.val))

\* sum(1 for t in lst if _task_is_running(t)) from the i-th task on
RECURSIVE RunningFrom(_, _)
RunningFrom(lst, i) ==
    IF i > Len(lst) THEN Return(0)
    ELSE LET this == TaskIsRunning(lst[i])
         IN  IF this.kind = "raise" THEN this
             ELSE LET rest == RunningFrom(lst, i + 1)
                  IN  IF rest.kind = "raise" THEN rest
                      ELSE Return(rest.val + (IF this.val THEN 1 ELSE 0))

\* _count_running_tasks
CountRunningTasks(tasks) ==
    LET lst == TasksList(tasks)
        running == RunningFrom(lst, 1)
    IN  IF lst = <<>> THEN Return(PyInt(0))
        ELSE IF running.kind = "raise" THEN running
        ELSE Return(PyInt(running.val))

\* sep.join(parts)
RECURSIVE Join(_, _)
Join(parts, sep) ==
    IF parts = <<>> THEN ""
    ELSE IF Len(parts) = 1 THEN parts[1]
    ELSE parts[1] \o sep \o Join(Tail(parts), sep)

\* the minutes appended whatever came before
FormatUptimeDe_MinutesAlways(seconds) ==
    IF seconds = PyNone THEN Return(PyNone)
    ELSE LET x == Float(seconds)
         IN  IF x.kind = "raise" THEN Return(PyNone)
             ELSE LET s == IF Trunc(x.val) < 0 THEN 0 ELSE Trunc(x.val)
                      days == s \div 86400
                      hours == (s % 86400) \div 3600
                      minutes == ((s % 86400) % 3600) \div 60
                      p1 == IF days # 0
                            THEN <<IF days # 1 THEN ToString(days) \o " Tage" ELSE "1 Tag">>
                            ELSE <<>>
                      p2 == IF hours # 0 THEN Append(p1, ToString(hours) \o " Std") ELSE p1
                  IN  Return(PyStr(Join(Append(p2, ToString(minutes) \o " Min"), " ")))

\* _format_uptime_de
FormatUptimeDe(seconds) ==
    IF seconds = PyNone THEN Return(PyNone)
    ELSE LET x == Float(seconds)
         IN  IF x.kind = "raise" THEN Return(PyNone)
             ELSE LET s == IF Trunc(x.val) < 0 THEN 0 ELSE Trunc(x.val)
                      days == s \div 86400
                      hours == (s % 86400) \div 3600
                      minutes == ((s % 86400) % 3600) \div 60
                      p1 == IF days # 0
                            THEN <<IF days # 1 THEN ToString(days) \o " Tage" ELSE "1 Tag">>
                            ELSE <<>>
                      p2 == IF hours # 0 THEN Append(p1, ToString(hours) \o " Std") ELSE p1
                      parts == IF minutes # 0 \/ p2 = <<>>
                               THEN Append(p2, ToString(minutes) \o " Min")
                               ELSE p2
                  IN  Return(PyStr(Join(parts, " ")))

(***************************************************************************)
(* The values a snapshot can hand to the value functions.                  *)
(***************************************************************************)
\* a reading of datetime.now(timezone.utc).timestamp()
Now == 1700 * 1000000

Clock == {Now, Now + Day}

\* values float() does not take
Unparsed == {PyNone, PyStr(""), PyStr("abc")}

UptimeNumbers ==
    { PyInt(d * 86400 + h * 3600 + m * 60 + sec) :
        d \in {0, 1, 2}, h \in {0, 1, 23}, m \in {0, 1, 59}, sec \in {0, 1, 59} }
    \cup {PyInt(-5), PyInt(-86400), PyNum(599, 10), PyNum(-5, 10), PyStr("90061")}

ByteNumbers == {PyInt(0), PyInt(53687091), PyInt(161061273), PyInt(214748364), PyInt(-1)}

CpuNumbers == {PyInt(0), PyNum(25, 100), PyInt(1), PyNum(375, 10), PyNum(1234, 10000), PyStr("0.52")}

UsedNumbers == {PyInt(0), PyInt(1), PyInt(50), PyStr("0.52")}

Totals == {PyNone, PyInt(0), PyInt(-1), PyInt(3), PyInt(200), PyStr("abc")}

LoadAvgs ==
    { PyList(<<PyStr("0.52"), PyStr("0.48")>>), PyList(<<PyNum(52, 100)>>),
      PyList(<<PyStr("abc")>>), PyList(<<PyNone>>),
      PyDict("0" :> PyStr("0.52")), PyDict("1" :> PyStr("0.52")), PyDict(NoKeys) }

TaskKeys == {"status", "state", "endtime", "exitstatus"}

Task(status, state, endtime, exitstatus) ==
    LET all == [status |-> status, state |-> state, endtime |-> endtime, exitstatus |-> exitstatus]
    IN  PyDict([k \in {key \in TaskKeys : all[key] # PyNone} |-> all[k]])

\* task records as the API documents them: strings, and a number for the end time
WellTypedTasks ==
    { Task(status, state, endtime, exitstatus) :
        status \in {PyNone, PyStr(""), PyStr("running"), PyStr("Active"), PyStr("OK"), PyStr("error")},
        state \in {PyNone, PyStr("active"), PyStr("success"), PyStr("stopped")},
        endtime \in {PyNone, PyStr(""), PyStr("abc"), PyStr("1699996400"), PyInt(Now - 3600),
                     PyInt(Now - 100000), PyInt(Now - Day), PyInt(Now - Day - 1), PyInt(Now + 60)},
        exitstatus \in {PyNone, PyStr("OK"), PyStr("success"), PyStr("error")} }

\* task records with a status, state or exitstatus that is no string
MalformedTasks ==
    { Task(PyInt(1), PyNone, PyInt(Now - 3600), PyStr("error")),
      Task(PyStr(""), PyInt(1), PyNone, PyNone),
      Task(PyInt(0), PyStr("active"), PyNone, PyNone),
      Task(PyStr("error"), PyNone, PyInt(Now - 3600), PyInt(1)),
      Task(PyStr("error"), PyNone, PyInt(Now - 100000), PyInt(1)),
      Task(PyList(<<PyStr("error")>>), PyNone, PyInt(Now - 3600), PyStr("error")) }

PairTasks ==
    { Task(PyStr("error"), PyNone, PyInt(Now - 3600), PyStr("error")),
      Task(PyStr("error"), PyNone, PyInt(Now - 100000), PyStr("error")),
      Task(PyStr("running"), PyNone, PyNone, PyNone),
      Task(PyStr("OK"), PyNone, PyInt(Now - 3600), PyStr("OK")),
      Task(PyStr("error"), PyStr("active"), PyInt(Now + 60), PyNone),
      Task(PyInt(1), PyNone, PyInt(Now - 3600), PyStr("error")) }

TaskLists ==
    {PyList(<<>>)}
    \cup { PyList(<<t>>) : t \in WellTypedTasks \cup MalformedTasks }
    \cup { PyList(<<t1, t2>>) : t1 \in PairTasks \cup {PyStr("abc"), PyNone}, t2 \in PairTasks }

\* lists and dicts: float() takes none of them
Containers == LoadAvgs \cup TaskLists \cup PairTasks

Values == UptimeNumbers \cup ByteNumbers \cup CpuNumbers \cup UsedNumbers \cup Unparsed \cup Containers

(***************************************************************************)
(* A sensor entity computes its value: the getter applies one value        *)
(* function to a field of the snapshot.  No request is under way.          *)
(***************************************************************************)
NotComputed == [kind |-> "none", val |-> PyNone, exc |-> "", msg |-> ""]

InitSensor ==
    /\ backend = BACKEND_PVE
    /\ node = "pve1"
    /\ display_name = ""
    /\ data = NoSnapshot
    /\ previous = NoSnapshot
    /\ pc = "idle"
    /\ loc = NoLocals
    /\ inflight = <<>>
    /\ requests = <<>>
    /\ got = [k \in EndpointKeys |-> NotAsked]
    /\ outcome = [kind |-> "none", msg |-> ""]
    /\ \E v \in Values, total \in Totals, now \in Clock :
         sensor = [fn |-> "", v |-> v, total |-> total, now |-> now, out |-> NotComputed]

Computes(fn, out) ==
    /\ sensor' = [sensor EXCEPT !.fn = fn, !.out = out]
    /\ UNCHANGED coordinator

NativeBytesToGib ==
    /\ sensor.fn = ""
    /\ sensor.v \in ByteNumbers \cup Unparsed \cup Containers
    /\ Computes("_bytes_to_gib", BytesToGib(sensor.v, 1))

NativeCpuToPercent ==
    /\ sensor.fn = ""
    /\ sensor.v \in CpuNumbers \cup Unparsed \cup Containers
    /\ Computes("_cpu_to_percent", CpuToPercent(sensor.v))

NativePercent ==
    /\ sensor.fn = ""
    /\ sensor.v \in UsedNumbers \cup Unparsed \cup Containers
    /\ Computes("_percent", Percent(sensor.v, sensor.total))

NativeLoad1m ==
    /\ sensor.fn = ""
    /\ Computes("_load_1m", Load1m(sensor.v))

NativeFormatUptimeDe ==
    /\ sensor.fn = ""
    /\ sensor.v \in UptimeNumbers \cup Unparsed \cup Containers
    /\ Computes("_format_uptime_de", FormatUptimeDe(sensor.v))

NativeCountRunningTasks ==
    /\ sensor.fn = ""
    /\ Computes("_count_running_tasks", CountRunningTasks(sensor.v))

NativeCountFailedTasksLast24h ==
    /\ sensor.fn = ""
    /\ Computes("_count_failed_tasks_last_24h", CountFailedTasksLast24h(sensor.v, sensor.now))

NextSensor ==
    \/ NativeBytesToGib
    \/ NativeCpuToPercent
    \/ NativePercent
    \/ NativeLoad1m
    \/ NativeFormatUptimeDe
    \/ NativeCountRunningTasks
    \/ NativeCountFailedTasksLast24h

SpecSensor == InitSensor /\ [][NextSensor]_vars

(***************************************************************************)
(* Vocabulary of the properties of the value functions.                    *)
(***************************************************************************)
\* the positions of a task list that hold a mapping; none when it is no list
Mappings(tasks) ==
    IF tasks.t = "list" THEN {i \in 1..Len(tasks.items) : tasks.items[i].t = "dict"} ELSE {}

\* every task record carries strings (or nothing) as status, state and exitstatus
WellTyped(tasks) ==
    \A i \in Mappings(tasks) : \A k \in {"status", "state", "exitstatus"} :
        DictGet(tasks.items[i], k).t \in {"none", "str"}

\* the status of a task record, or its state when the status is missing or empty
StatusOrState(t) ==
    IF DictGet(t, "status").s # "" THEN Lower(DictGet(t, "status").s) ELSE Lower(DictGet(t, "state").s)

\* the value reads as a number
Parseable(x) == x.t = "num" \/ (x.t = "str" /\ x.s \in NumericStrings)

NumberOf(x) == IF x.t = "num" THEN x ELSE ParseFloat(x.s)

\* the endtime is a number and lies at most 24 hours before now
EndedSince(t, now) ==
    /\ Parseable(DictGet(t, "endtime"))
    /\ NumberOf(DictGet(t, "endtime")).num >= (now - Day) * NumberOf(DictGet(t, "endtime")).den

RecentFailure(t, now) ==
    /\ EndedSince(t, now)
    /\ StatusOrState(t) \notin {"running", "active"}
    /\ StatusOrState(t) \notin {"ok", "success"}
    /\ Lower(DictGet(t, "exitstatus").s) \notin {"ok", "success"}

IsRunning(t) ==
    \/ StatusOrState(t) \in {"running", "active"}
    \/ ~Parseable(DictGet(t, "endtime"))

\* C12: _count_failed_tasks_last_24h answers the number of task records that ended, with
\* a numeric endtime, at most 24 hours before now, are neither running nor successful
\* by status/state and have an exitstatus other than ok/success (whatever the case of
\* the letters); a value that is no list and items that are no mappings add nothing
C12_CountsRecentFailures ==
    (sensor.fn = "_count_failed_tasks_last_24h" /\ WellTyped(sensor.v)) =>
        sensor.out = Return(PyInt(Cardinality(
            {i \in Mappings(sensor.v) : RecentFailure(sensor.v.items[i], sensor.now)})))

C12_Witness ==
    /\ sensor.fn = "_count_failed_tasks_last_24h"
    /\ sensor.now = Now
    /\ sensor.v = PyList(<<Task(PyStr("error"), PyNone, PyInt(Now - 3600), PyStr("error")),
                           Task(PyStr("error"), PyNone, PyInt(Now - 100000), PyStr("error"))>>)
    /\ sensor.out = Return(PyInt(1))

\* C13: _count_running_tasks answers the number of task records that are running: the
\* status (the state when the status is missing or empty) is running or active in any
\* case of the letters, or the endtime is missing, empty or no number
C13_CountsRunning ==
    (sensor.fn = "_count_running_tasks" /\ WellTyped(sensor.v)) =>
        sensor.out = Return(PyInt(Cardinality(
            {i \in Mappings(sensor.v) : IsRunning(sensor.v.items[i])})))

C13_Witness ==
    /\ sensor.fn = "_count_running_tasks"
    /\ sensor.v = PyList(<<Task(PyStr("running"), PyNone, PyNone, PyNone),
                           Task(PyStr("error"), PyStr("active"), PyInt(Now + 60), PyNone)>>)
    /\ sensor.out = Return(PyInt(1))

\* the second count a number stands for: truncated, a negative one taken as zero
Seconds(v) == IF Trunc(Float(v).val) < 0 THEN 0 ELSE Trunc(Float(v).val)

DaysOf(v) == Seconds(v) \div 86400

HoursOf(v) == (Seconds(v) % 86400) \div 3600

MinutesOf(v) == (Seconds(v) % 3600) \div 60

\* the components that are shown, in order, a blank between them
Rendering(v, showdays, showhours, showminutes) ==
    Join((IF showdays
          THEN <<IF DaysOf(v) = 1 THEN "1 Tag" ELSE ToString(DaysOf(v)) \o " Tage">>
          ELSE <<>>)
         \o (IF showhours THEN <<ToString(HoursOf(v)) \o " Std">> ELSE <<>>)
         \o (IF showminutes THEN <<ToString(MinutesOf(v)) \o " Min">> ELSE <<>>), " ")

C14_Case == sensor.fn = "_format_uptime_de" /\ Float(sensor.v).kind = "return"

C14_Examples ==
    /\ sensor.v = PyInt(0) => sensor.out = Return(PyStr("0 Min"))
    /\ sensor.v = PyInt(-5) => sensor.out = Return(PyStr("0 Min"))
    /\ sensor.v = PyInt(90061) => sensor.out = Return(PyStr("1 Tag 1 Std 1 Min"))

\* C14 as stated: _format_uptime_de renders days, hours and minutes in that order and
\* omits only the zero components that lead: the hours are shown once days are, the
\* minutes always
C14_HumanUptime ==
    C14_Case =>
        /\ C14_Examples
        /\ sensor.out = Return(PyStr(Rendering(sensor.v,
               DaysOf(sensor.v) # 0,
               DaysOf(sensor.v) # 0 \/ HoursOf(sensor.v) # 0,
               TRUE)))

\* C14, amended: _format_uptime_de renders days, hours and minutes in that order and
\* omits every component that is zero, wherever it stands; the minutes are shown when
\* they are not zero or when neither days nor hours are shown
C14_HumanUptimeOmitsZeros ==
    C14_Case =>
        /\ C14_Examples
        /\ sensor.out = Return(PyStr(Rendering(sensor.v,
               DaysOf(sensor.v) # 0,
               HoursOf(sensor.v) # 0,
               MinutesOf(sensor.v) # 0 \/ (DaysOf(sensor.v) = 0 /\ HoursOf(sensor.v) = 0))))

C14_Witness ==
    /\ sensor.fn = "_format_uptime_de"
    /\ sensor.v = PyInt(86400 + 60)
    /\ sensor.out = Return(PyStr("1 Tag 1 Min"))

\* C15: no value function raises, whatever value it is handed
C15_Total == sensor.fn \notin {"", "none"} => sensor.out.kind = "return"

(***************************************************************************)
(* The order of the requests of a tick.                                    *)
(***************************************************************************)
\* the total timeout of one GET, in seconds
GetTimeout == 20

Fetch(path, params) == [path |-> path, params |-> params]

\* the requests of the tick so far, without the node they name
Fetches == [i \in 1..Len(requests) |-> Fetch(requests[i].path, requests[i].params)]

PveFetches ==
    <<Fetch("/nodes/{node}/status", ""), Fetch("/nodes/{node}/qemu", ""),
      Fetch("/nodes/{node}/lxc", ""), Fetch("/nodes/{node}/tasks", "running=true&limit=200")>>

PbsFetches ==
    <<Fetch("/version", ""), Fetch("/nodes/{node}/status", ""), Fetch("/status/datastore-usage", ""),
      Fetch("/nodes/{node}/tasks", "limit=200"), Fetch("/nodes/{node}/tasks", "running=true&limit=200")>>

IsPrefix(s, t) == Len(s) <= Len(t) /\ SubSeq(t, 1, Len(s)) = s

\* C16: the requests of a tick go out one after the other in the fixed order, the next
\* one only when the one before has been answered or has failed; never more than one
\* request is under way
C16_SequentialFetches ==
    /\ Len(inflight) <= 1
    /\ pc # "idle" => inflight = <<requests[Len(requests)]>>
    /\ pc = "idle" => inflight = <<>>
    /\ Cardinality({k \in EndpointKeys : got[k].asked}) = Len(requests) - Len(inflight)
    /\ backend = BACKEND_PVE =>
           \/ IsPrefix(Fetches, <<Fetch("/version", "")>> \o PveFetches)
           \/ IsPrefix(Fetches, <<Fetch("/version", ""), Fetch("/nodes", "")>> \o PveFetches)
    /\ backend = BACKEND_PBS => IsPrefix(Fetches, PbsFetches)

C16_Witness ==
    /\ TickEnded
    /\ backend = BACKEND_PVE
    /\ outcome.kind = "snapshot"
    /\ Fetches = <<Fetch("/version", ""), Fetch("/nodes", "")>> \o PveFetches
    /\ \A k \in PveKeys \cup {"nodes"} : got[k].asked

\* the PBS tick has made its last call and that call did not abort it
PbsRanToCompletion ==
    /\ TickEnded
    /\ backend = BACKEND_PBS
    /\ got["tasks_running"].asked
    /\ ~OtherError("tasks_running")

\* C17 as stated: a PBS tick that runs to completion has issued 7 calls, 7 x 20 seconds
\* of timeouts at worst
C17_PbsSevenCalls ==
    PbsRanToCompletion => Len(requests) = 7 /\ Len(requests) * GetTimeout = 140

\* C17, amended: a PBS tick that runs to completion has issued 5 calls (/version, status,
\* datastore-usage, all tasks, running tasks), 5 x 20 seconds of timeouts at worst
C17_PbsFiveCalls ==
    PbsRanToCompletion =>
        /\ Fetches = PbsFetches
        /\ Len(requests) = 5
        /\ Len(requests) * GetTimeout = 100

C17_Witness ==
    /\ PbsRanToCompletion
    /\ outcome.kind = "snapshot"
    /\ Len(requests) = 5
    /\ \A k \in PbsKeys : Returned(k)

C18_Case ==
    /\ TickEnded
    /\ backend = BACKEND_PVE
    /\ ~got["nodes"].asked
    /\ \A k \in PveKeys : RemoteError(k)

\* C18: a PVE tick that starts with the node name known does not fail because of
\* ProxmoxApiError: with all five calls raising it the tick publishes a snapshot with no
\* version, an empty status, counts of 0 and no running tasks; when such a tick fails,
\* some call raised another error or answered a list of items that are no mappings
C18_PveSurvivesRemoteErrors ==
    /\ C18_Case =>
           /\ outcome.kind = "snapshot"
           /\ data.backend = BACKEND_PVE
           /\ data.version = JNull
           /\ data.status = JDict(NoKeys)
           /\ data.counts = [vms_total |-> 0, vms_running |-> 0, lxcs_total |-> 0, lxcs_running |-> 0]
           /\ data.tasks_running = JList(<<>>)
    /\ (TickEnded /\ backend = BACKEND_PVE /\ ~got["nodes"].asked /\ outcome.kind = "UpdateFailed")
           => Unclassified

C18_Witness ==
    /\ C18_Case
    /\ outcome.kind = "snapshot"
    /\ data.counts.vms_total = 0
    /\ previous # NoSnapshot
    /\ previous.counts.vms_total > 0

\* C19, the part that holds: once the node name is not empty no step changes it and no
\* step sends a request for /nodes
C19_NodeNeverChanges ==
    [][node # "" =>
          /\ node' = node
          /\ requests' # requests => requests'[Len(requests')].path # "/nodes"]_vars

\* with /version answered or failing with ProxmoxApiError, a tick that leaves the node
\* name empty has asked /nodes
C19_AsksNodesUnlessVersionAborts ==
    (TickEnded /\ backend = BACKEND_PVE /\ node = "" /\ ~OtherError("version"))
        => got["nodes"].asked

\* C19: the node name is sticky, and while it is empty every tick requests /nodes: a tick
\* that ends with the node name still empty has asked /nodes
C19_EveryTickAsksNodes ==
    (TickEnded /\ backend = BACKEND_PVE /\ node = "") => got["nodes"].asked

====
